---- MODULE Spec2Model ----
(***************************************************************************)
(* Model of AudioProcessor (src/main.py): a recording session with three   *)
(* daemon threads (capture = process_audio, output = play_audio, timer =   *)
(* recording_timer) and an external caller, sharing the session's flags,   *)
(* the two PyAudio streams and the hand-off queue without any lock.        *)
(* stop() is executed in steps by whichever thread calls it, so that       *)
(* concurrent invocations interleave as they do under the interpreter's    *)
(* thread switching.  A step groups statements that touch one shared       *)
(* attribute; a thread may be delayed for any time between two steps.      *)
(***************************************************************************)
EXTENDS Integers, Sequences, FiniteSets, TLC

\* ---- bounds ------------------------------------------------------------
Res == 2            \* clock ticks per second
MaxDur == 1         \* min_duration, max_duration range over 0..MaxDur
Jitter == 1         \* ticks by which a loop iteration may run late
MaxBlocks == 2      \* blocks the input device delivers
MaxFaults == 1      \* device / file I/O errors injected

\* No session's clock reaches MaxNow: the timer leaves its loop at the first
\* check that finds duration >= max_duration.
MaxNow == (MaxDur + 3) * (Res + Jitter)

Threads == {"timer", "capture", "output", "caller"}

VARIABLES
    min_duration, max_duration,          \* constructor arguments
    is_running, maximum_duration_reached,
    minimal_duration_recorded, stop_requested,
    duration,
    in_stream, out_stream,               \* "none" | "open"
    p,                                   \* "none" | "live"
    audio_data_queue,                    \* TRUE iff the attribute is not None
    q,                                   \* contents of the Queue object
    elapsed,                             \* time.time() - start_time, in ticks,
                                         \* as the timer last saw it
    pc,                                  \* position of each thread
    spc,                                 \* position inside stop(), per thread
    blk,                                 \* audio_data local of play_audio
    pushed, popped, played, filed,       \* histories of block ids
    wav_file,                            \* "unopened" | "open" | "closed"
    faults,                              \* I/O errors injected so far
    raised,                              \* some stop() call has raised
    released,                            \* release count per resource
    startResult                          \* "none" | "ok" | "failed"

flags == <<is_running, maximum_duration_reached, minimal_duration_recorded,
           stop_requested, duration>>
handles == <<in_stream, out_stream, p, audio_data_queue>>
cfg == <<min_duration, max_duration>>
hist == <<pushed, popped, played, filed>>
vars == <<min_duration, max_duration, is_running, maximum_duration_reached,
          minimal_duration_recorded, stop_requested, duration, in_stream,
          out_stream, p, audio_data_queue, q, elapsed, pc, spc, blk,
          pushed, popped, played, filed, wav_file, faults, raised,
          released, startResult>>

\* ---- pure helpers ------------------------------------------------------
\* Defective variant: the subtraction of line 134 with its operands
\* swapped, start_time - time.time().
PyRoundSwapped(n, r) == 0 - ((n + (r \div 2)) \div r)

\* round(n / r) as Python 3 computes it: ties go to the even integer.
PyRound(n, r) ==
    LET quo == n \div r
        rem == n % r
    IN  IF 2 * rem < r THEN quo
        ELSE IF 2 * rem > r THEN quo + 1
        ELSE IF quo % 2 = 0 THEN quo ELSE quo + 1

IsPrefix(s, t) ==
    /\ Len(s) <= Len(t)
    /\ \A i \in 1..Len(s) : s[i] = t[i]

\* ---- construction ------------------------------------------------------
\* __init__ (lines 74-100) apart from its two duration arguments.
Constructed ==
    /\ is_running = FALSE
    /\ maximum_duration_reached = FALSE
    /\ minimal_duration_recorded = FALSE
    /\ stop_requested = FALSE
    /\ duration = 0
    /\ in_stream = "none"
    /\ out_stream = "none"
    /\ p = "none"
    /\ audio_data_queue = FALSE
    /\ q = <<>>
    /\ elapsed = 0
    /\ pc = [t \in Threads |-> "idle"]
    /\ spc = [t \in Threads |-> "none"]
    /\ blk = 0
    /\ pushed = <<>>
    /\ popped = <<>>
    /\ played = <<>>
    /\ filed = <<>>
    /\ wav_file = "unopened"
    /\ faults = 0
    /\ raised = FALSE
    /\ released = [r \in {"in", "out", "p"} |-> 0]
    /\ startResult = "none"

Init ==
    /\ min_duration \in 0..MaxDur
    /\ max_duration \in 0..MaxDur
    /\ Constructed

\* ---- start() -----------------------------------------------------------
\* Lines 107-123 with both devices opening: the three threads are started.
Start ==
    /\ pc["caller"] = "idle"
    /\ spc["caller"] = "none"
    /\ startResult = "none"
    /\ p' = "live"
    /\ in_stream' = "open"
    /\ out_stream' = "open"
    /\ audio_data_queue' = TRUE
    /\ q' = <<>>
    /\ maximum_duration_reached' = FALSE
    /\ minimal_duration_recorded' = FALSE
    /\ stop_requested' = FALSE
    /\ elapsed' = 0
    /\ duration' = 0
    /\ is_running' = TRUE
    /\ pc' = [pc EXCEPT !["capture"] = "p190", !["output"] = "o209",
                        !["timer"] = "t133"]
    /\ startResult' = "ok"
    /\ UNCHANGED <<cfg, spc, blk, hist, wav_file, faults, raised,
                   released>>

\* Defective variant: the failure is swallowed and the session is marked
\* running with its timer started.
StartFailStillRuns ==
    /\ pc["caller"] = "idle"
    /\ spc["caller"] = "none"
    /\ startResult = "none"
    /\ p' = "live"
    /\ in_stream' = "open"
    /\ is_running' = TRUE
    /\ pc' = [pc EXCEPT !["timer"] = "t133"]
    /\ startResult' = "failed"
    /\ UNCHANGED <<cfg, maximum_duration_reached, minimal_duration_recorded,
                   stop_requested, duration, out_stream, audio_data_queue,
                   q, elapsed, spc, blk, hist, wav_file, faults, raised,
                   released>>

\* p.open() raises at line 108 (input) or line 110 (output): the exception
\* leaves start() before any flag is written or any thread is started.
StartFail ==
    /\ pc["caller"] = "idle"
    /\ spc["caller"] = "none"
    /\ startResult = "none"
    /\ p' = "live"
    /\ \E inputOpened \in BOOLEAN :
          in_stream' = IF inputOpened THEN "open" ELSE "none"
    /\ startResult' = "failed"
    /\ UNCHANGED <<cfg, flags, out_stream, audio_data_queue, q, elapsed,
                   pc, spc, blk, hist, wav_file, faults, raised,
                   released>>

\* ---- stop() ------------------------------------------------------------
\* Where the calling thread continues when its stop() call returns.
RetPc(t, at) ==
    CASE t = "timer" -> "done"
      [] t = "capture" -> "p190"
      [] t = "output" -> IF at = "o226" THEN "o215" ELSE "done"
      [] OTHER -> "idle"

\* Where the calling thread continues when its stop() call raises: the
\* timer's and the output worker's enclosing handlers call stop() again,
\* a handler's own stop() raising ends the thread.
ExcPc(t, at) ==
    CASE t = "timer" -> IF at = "t147" THEN "t150" ELSE "dead"
      [] t = "capture" -> "dead"
      [] t = "output" -> IF at = "o226" THEN "o232" ELSE "dead"
      [] OTHER -> "dead"

CallSites == {"t147", "t150", "p205", "o226", "o232", "c_stop"}

StopReturn(t) ==
    /\ spc' = [spc EXCEPT ![t] = "none"]
    /\ pc' = [pc EXCEPT ![t] = RetPc(t, pc[t])]
    /\ UNCHANGED raised

\* A handler reached by an exception starts its own stop() call at once.
StopRaise(t) ==
    /\ pc' = [pc EXCEPT ![t] = ExcPc(t, pc[t])]
    /\ spc' = [spc EXCEPT ![t] = IF ExcPc(t, pc[t]) \in CallSites
                                 THEN "s157" ELSE "none"]
    /\ raised' = TRUE

StopGoto(t, l) ==
    /\ spc' = [spc EXCEPT ![t] = l]
    /\ UNCHANGED <<pc, raised>>

\* Defective variant: stop() without its first guard.
StopIsNoOpNever(running) == FALSE

\* line 157: if not self.is_running
StopIsNoOp(running) == ~running

\* Defective variant: stop() defers whatever the timer has recorded.
StopDefersAlways(recorded) == TRUE

\* Defective variant: stop() without its minimum-duration guard.
StopDefersNever(recorded) == FALSE

\* line 159: if not self.minimal_duration_recorded
StopDefers(recorded) == ~recorded

\* lines 157-159: the two guards of stop()
Stop157(t) ==
    /\ spc[t] = "s157"
    /\ IF StopIsNoOp(is_running) THEN StopReturn(t)
       ELSE IF StopDefers(minimal_duration_recorded) THEN StopGoto(t, "s160")
       ELSE StopGoto(t, "s162")
    /\ UNCHANGED <<cfg, flags, handles, q, elapsed, blk, hist,
                   wav_file, faults, released, startResult>>

\* Defective variant: the deferring branch also clears is_running.
Stop160AlsoStops(t) ==
    /\ spc[t] = "s160"
    /\ stop_requested' = TRUE
    /\ is_running' = FALSE
    /\ StopReturn(t)
    /\ UNCHANGED <<cfg, maximum_duration_reached,
                   minimal_duration_recorded, duration, handles, q, elapsed,
                   blk, hist, wav_file, faults, released,
                   startResult>>

\* lines 160-161: self.stop_requested = True; return
Stop160(t) ==
    /\ spc[t] = "s160"
    /\ stop_requested' = TRUE
    /\ StopReturn(t)
    /\ UNCHANGED <<cfg, is_running, maximum_duration_reached,
                   minimal_duration_recorded, duration, handles, q, elapsed,
                   blk, hist, wav_file, faults, released,
                   startResult>>

\* line 162: self.is_running = False
Stop162(t) ==
    /\ spc[t] = "s162"
    /\ is_running' = FALSE
    /\ StopGoto(t, "s163")
    /\ UNCHANGED <<cfg, maximum_duration_reached, minimal_duration_recorded,
                   stop_requested, duration, handles, q, elapsed,
                   blk, hist, wav_file, faults, released, startResult>>

\* lines 163-165: stop and close the input stream, then drop it.  The
\* attribute is None once another stop() has run these lines, and
\* None.stop_stream() raises AttributeError.
Stop163(t) ==
    /\ spc[t] = "s163"
    /\ IF in_stream = "none"
       THEN StopRaise(t) /\ UNCHANGED <<in_stream, released>>
       ELSE /\ in_stream' = "none"
            /\ released' = [released EXCEPT !["in"] = @ + 1]
            /\ StopGoto(t, "s166")
    /\ UNCHANGED <<cfg, flags, out_stream, p, audio_data_queue, q, elapsed,
                   blk, hist, wav_file, faults, startResult>>

\* lines 166-168: the same for the output stream
Stop166(t) ==
    /\ spc[t] = "s166"
    /\ IF out_stream = "none"
       THEN StopRaise(t) /\ UNCHANGED <<out_stream, released>>
       ELSE /\ out_stream' = "none"
            /\ released' = [released EXCEPT !["out"] = @ + 1]
            /\ StopGoto(t, "s169")
    /\ UNCHANGED <<cfg, flags, in_stream, p, audio_data_queue, q, elapsed,
                   blk, hist, wav_file, faults, startResult>>

\* lines 169-171: drop the queue, terminate PyAudio and drop it; stop()
\* returns
Stop169(t) ==
    /\ spc[t] = "s169"
    /\ audio_data_queue' = FALSE
    /\ IF p = "none"
       THEN StopRaise(t) /\ UNCHANGED <<p, released>>
       ELSE /\ p' = "none"
            /\ released' = [released EXCEPT !["p"] = @ + 1]
            /\ StopReturn(t)
    /\ UNCHANGED <<cfg, flags, in_stream, out_stream, q, elapsed,
                   blk, hist, wav_file, faults, startResult>>

\* ---- the external caller (lines 263-279) -------------------------------
\* audio_processor.stop() at line 270 or 279, as often as the caller likes.
CallerStop ==
    /\ pc["caller"] = "idle"
    /\ spc["caller"] = "none"
    /\ pc' = [pc EXCEPT !["caller"] = "c_stop"]
    /\ spc' = [spc EXCEPT !["caller"] = "s157"]
    /\ UNCHANGED <<cfg, flags, handles, q, elapsed, blk, hist,
                   wav_file, faults, raised, released, startResult>>

\* Enter an except handler whose body is self.stop().
EnterHandler(t, site) ==
    /\ pc' = [pc EXCEPT ![t] = site]
    /\ spc' = [spc EXCEPT ![t] = "s157"]

Goto(t, l) ==
    /\ pc' = [pc EXCEPT ![t] = l]
    /\ UNCHANGED spc

\* ---- recording_timer() -------------------------------------------------
\* How late the clock is read at line 134: not at all on the first pass,
\* which follows start() at once, and up to Jitter ticks after a sleep.
Lateness(e) == IF e = 0 THEN {0} ELSE 0..Jitter

\* lines 133-135: while self.is_running: self.duration = round(time.time()
\* - self.start_time), and time.sleep(1) begins; leaving the loop calls
\* stop() (line 147)
Timer133 ==
    /\ pc["timer"] = "t133"
    /\ IF is_running
       THEN /\ \E late \in Lateness(elapsed) :
                  /\ elapsed' = elapsed + late
                  /\ duration' = PyRound(elapsed + late, Res)
            /\ Goto("timer", "t135")
       ELSE /\ EnterHandler("timer", "t147")
            /\ UNCHANGED <<duration, elapsed>>
    /\ UNCHANGED <<cfg, is_running, maximum_duration_reached,
                   minimal_duration_recorded, stop_requested, handles, q,
                   blk, hist, wav_file, faults, raised, released,
                   startResult>>

\* Defective variant: the minimum check ignores a pending stop request.
BreakOnMinNever(d, mn, sr) == FALSE

\* lines 138-141: the minimum check breaks out of the loop
BreakOnMin(d, mn, sr) == d >= mn /\ sr

\* Defective variant: the maximum check fires whatever the duration.
BreakOnMaxAlways(d, mx) == TRUE

\* Defective variant: the maximum check is missing.
BreakOnMaxNever(d, mx) == FALSE

\* lines 144-146: the maximum check, reached only without the first break
BreakOnMax(d, mx) == d >= mx

\* line 135 returns once a second has passed; lines 138-146, then line 133
\* again, or line 147 after a break
Timer138 ==
    /\ pc["timer"] = "t135"
    /\ elapsed + Res <= MaxNow
    /\ elapsed' = elapsed + Res
    /\ minimal_duration_recorded' =
          (minimal_duration_recorded \/ duration >= min_duration)
    /\ IF BreakOnMin(duration, min_duration, stop_requested)
       THEN /\ EnterHandler("timer", "t147")
            /\ UNCHANGED maximum_duration_reached
       ELSE IF BreakOnMax(duration, max_duration)
       THEN /\ maximum_duration_reached' = TRUE
            /\ EnterHandler("timer", "t147")
       ELSE /\ Goto("timer", "t133")
            /\ UNCHANGED maximum_duration_reached
    /\ UNCHANGED <<cfg, is_running, stop_requested, duration, handles, q,
                   blk, hist, wav_file, faults, raised, released,
                   startResult>>

\* ---- process_audio() ---------------------------------------------------
\* line 190: while self.is_running
Capture190 ==
    /\ pc["capture"] = "p190"
    /\ Goto("capture", IF is_running THEN "p193" ELSE "done")
    /\ UNCHANGED <<cfg, flags, handles, q, elapsed, blk, hist,
                   wav_file, faults, raised, released, startResult>>

\* Queue.put: the block goes to the tail
QueuePut(queue, b) == Append(queue, b)

\* lines 193-201: one block is read from the open input stream and put on
\* the queue (stop() drops the queue only after it has closed the stream)
Capture193 ==
    /\ pc["capture"] = "p193"
    /\ in_stream = "open"
    /\ audio_data_queue
    /\ Len(pushed) < MaxBlocks
    /\ q' = QueuePut(q, Len(pushed) + 1)
    /\ pushed' = Append(pushed, Len(pushed) + 1)
    /\ Goto("capture", "p190")
    /\ UNCHANGED <<cfg, flags, handles, elapsed, blk, popped, played,
                   filed, wav_file, faults, raised, released, startResult>>

\* line 193 raises: the stream attribute is None, or the device fails;
\* lines 202-205 call stop()
Capture193Err ==
    /\ pc["capture"] = "p193"
    /\ \/ in_stream # "open" /\ UNCHANGED faults
       \/ in_stream = "open" /\ faults < MaxFaults /\ faults' = faults + 1
    /\ EnterHandler("capture", "p205")
    /\ UNCHANGED <<cfg, flags, handles, q, elapsed, blk, hist,
                   wav_file, raised, released, startResult>>

\* ---- play_audio() ------------------------------------------------------
\* lines 209-214: wave.open, and the wave parameters: self.p is None once
\* stop() has finished, and the outer handler (229-232) calls stop()
Output209 ==
    /\ pc["output"] = "o209"
    /\ wav_file' = "open"
    /\ IF p = "none" THEN EnterHandler("output", "o232")
                     ELSE Goto("output", "o215")
    /\ UNCHANGED <<cfg, flags, handles, q, elapsed, blk, hist,
                   faults, raised, released, startResult>>

\* line 215: while self.is_running; line 228 after the loop:
\* wav_file.close()
Output215 ==
    /\ pc["output"] = "o215"
    /\ IF is_running
       THEN Goto("output", "o218") /\ UNCHANGED wav_file
       ELSE Goto("output", "done") /\ wav_file' = "closed"
    /\ UNCHANGED <<cfg, flags, handles, q, elapsed, blk, hist,
                   faults, raised, released, startResult>>

\* line 218, the attribute access: self.audio_data_queue
Output218 ==
    /\ pc["output"] = "o218"
    /\ IF audio_data_queue THEN Goto("output", "o218get")
                           ELSE EnterHandler("output", "o226")
    /\ UNCHANGED <<cfg, flags, handles, q, elapsed, blk, hist,
                   wav_file, faults, raised, released, startResult>>

\* Queue.get: the block at the head, and the queue without it
QueueHead(queue) == Head(queue)

QueueRest(queue) == Tail(queue)

\* line 218, the call: .get() blocks on the Queue object until it holds a
\* block, whatever becomes of the attribute meanwhile; line 220:
\* self.out_stream.write(audio_data)
OutputGet ==
    /\ pc["output"] = "o218get"
    /\ q # <<>>
    /\ q' = QueueRest(q)
    /\ popped' = Append(popped, QueueHead(q))
    /\ \/ /\ out_stream = "open"
          /\ played' = Append(played, QueueHead(q))
          /\ blk' = QueueHead(q)
          /\ Goto("output", "o222")
          /\ UNCHANGED faults
       \/ /\ \/ out_stream # "open" /\ UNCHANGED faults
             \/ /\ out_stream = "open"
                /\ faults < MaxFaults
                /\ faults' = faults + 1
          /\ EnterHandler("output", "o226")
          /\ UNCHANGED <<played, blk>>
    /\ UNCHANGED <<cfg, flags, handles, elapsed, pushed, filed,
                   wav_file, raised, released, startResult>>

\* line 222: wav_file.writeframes(audio_data)
Output222 ==
    /\ pc["output"] = "o222"
    /\ blk' = 0
    /\ \/ /\ filed' = Append(filed, blk)
          /\ Goto("output", "o215")
          /\ UNCHANGED faults
       \/ /\ faults < MaxFaults
          /\ faults' = faults + 1
          /\ EnterHandler("output", "o226")
          /\ UNCHANGED filed
    /\ UNCHANGED <<cfg, flags, handles, q, elapsed, pushed, popped,
                   played, wav_file, raised, released, startResult>>

\* ---- specification -----------------------------------------------------
TimerStep == Timer133 \/ Timer138

CaptureStep == Capture190 \/ Capture193 \/ Capture193Err

OutputStep ==
    Output209 \/ Output215 \/ Output218 \/ OutputGet \/ Output222

StopStep(t) ==
    \/ Stop157(t) \/ Stop160(t) \/ Stop162(t)
    \/ Stop163(t) \/ Stop166(t) \/ Stop169(t)

Next ==
    \/ Start
    \/ StartFail
    \/ CallerStop
    \/ Timer133
    \/ Timer138
    \/ Capture190
    \/ Capture193
    \/ Capture193Err
    \/ Output209
    \/ Output215
    \/ Output218
    \/ OutputGet
    \/ Output222
    \/ \E t \in Threads : Stop157(t)
    \/ \E t \in Threads : Stop160(t)
    \/ \E t \in Threads : Stop162(t)
    \/ \E t \in Threads : Stop163(t)
    \/ \E t \in Threads : Stop166(t)
    \/ \E t \in Threads : Stop169(t)

Spec == Init /\ [][Next]_vars

\* Every thread that can take a step eventually takes one (a sleep ends);
\* the external caller finishes a stop() it has begun but
\* is never obliged to begin one.
FairSpec ==
    /\ Spec
    /\ WF_vars(TimerStep)
    /\ WF_vars(CaptureStep)
    /\ WF_vars(OutputStep)
    /\ \A t \in Threads : WF_vars(StopStep(t))

\* The timer thread alone is scheduled fairly: its sleep ends, and a step it
\* can take, in its loop or in a stop() call it made, is eventually taken.
TimerFairSpec == Spec /\ WF_vars(TimerStep \/ StopStep("timer"))

\* ---- properties --------------------------------------------------------
Started == startResult = "ok"

TimerChecks == pc["timer"] = "t135" /\ pc'["timer"] # "t135"

\* C1: in a started session, running = false implies that the minimum
\* duration was recorded, and it is recorded only once the timer has
\* observed duration >= min_duration.
MinDurationGuarantee ==
    (Started /\ ~is_running) =>
        (minimal_duration_recorded /\ duration >= min_duration)

StoppedAfterDeferredStop == Started /\ ~is_running /\ stop_requested

\* A stop() call has taken, or is taking, the deferring branch (lines
\* 159-161) on a running session.
DeferredPending ==
    /\ Started
    /\ is_running
    /\ min_duration <= max_duration
    /\ \/ stop_requested /\ ~minimal_duration_recorded
       \/ \E t \in Threads : spc[t] = "s160"

\* C2: a stop() call that found the minimum not recorded completes through
\* the timer alone: the timer check that observes duration >= min_duration
\* with the request pending records the minimum and leaves its loop for
\* stop(), and running becomes false with no further stop() call.
DeferredStopCompletes ==
    /\ [][(TimerChecks /\ stop_requested /\ duration >= min_duration) =>
            (minimal_duration_recorded' /\ pc'["timer"] = "t147")]_vars
    /\ DeferredPending ~> ~is_running

DeferredStopDone ==
    /\ Started
    /\ ~is_running
    /\ stop_requested
    /\ pc["timer"] = "done"
    /\ ~maximum_duration_reached
    /\ min_duration <= max_duration

\* C3: with min_duration <= max_duration, once duration >= max_duration on
\* a running session, the maximum is flagged and running becomes false,
\* unless a stop was requested meanwhile.
MaxDurationEnforced ==
    (Started /\ is_running /\ duration >= max_duration
        /\ min_duration <= max_duration)
      ~> ((maximum_duration_reached /\ ~is_running) \/ stop_requested)

StoppedAtMax ==
    /\ Started
    /\ ~is_running
    /\ maximum_duration_reached
    /\ ~stop_requested
    /\ faults = 0
    /\ min_duration <= max_duration

\* C4: whenever the timer's check observes duration >= max_duration on a
\* running session (min_duration <= max_duration), maximum_duration_reached
\* is set, whether or not a stop request is pending.
MaxWinsOverPendingStop ==
    [][(TimerChecks /\ Started /\ is_running /\ duration >= max_duration
            /\ min_duration <= max_duration)
          => maximum_duration_reached']_vars

\* C5: concurrent stop() calls on a running session: none raises, and the
\* input stream, the output stream and the audio backend are each released
\* at most once, exactly once when a call has gone through.
ConcurrentStopSafe ==
    /\ ~raised
    /\ \A r \in {"in", "out", "p"} : released[r] <= 1
    /\ (Started /\ \A t \in Threads : spc[t] = "none" /\ ~is_running)
          => \A r \in {"in", "out", "p"} : released[r] = 1

\* C6: the steps of a stop() call that finds the session running and the
\* minimum not recorded change only stop_requested, to true; the flags, the
\* handles, the queue and every other thread are left as they were.
DeferredStopFrame ==
    [][\A t \in Threads :
          (spc[t] = "s160" /\ spc'[t] # "s160") =>
              /\ stop_requested'
              /\ UNCHANGED <<is_running, duration, maximum_duration_reached,
                             minimal_duration_recorded, handles, q, hist,
                             wav_file, released>>
              /\ \A u \in Threads \ {t} : pc'[u] = pc[u] /\ spc'[u] = spc[u]
      ]_vars

StopWasDeferred ==
    Started /\ is_running /\ stop_requested /\ ~minimal_duration_recorded

\* C7: a stop() call on a session that is not running returns at its first
\* guard and changes no session state.
StopIdempotent ==
    [][\A t \in Threads :
          (spc[t] = "s157" /\ ~is_running /\ spc'[t] # "s157") =>
              /\ spc'[t] = "none"
              /\ UNCHANGED <<flags, handles, q, hist, wav_file, released,
                             raised>>
      ]_vars

StoppedThenStopAgain ==
    /\ Started
    /\ ~is_running
    /\ p = "none"
    /\ pc["timer"] = "done"
    /\ pc["caller"] = "c_stop"
    /\ spc["caller"] = "s157"

\* C8: whenever a started session stops, the output worker eventually
\* closes the output file.
OutputFileFinalized == (Started /\ ~is_running) ~> (wav_file = "closed")

\* The session ended at its maximum duration, with no stop request and no
\* error, and the three threads have finished.
NaturalCompletion ==
    /\ Started
    /\ maximum_duration_reached
    /\ ~stop_requested
    /\ faults = 0
    /\ ~raised
    /\ \A w \in {"timer", "capture", "output"} : pc[w] = "done"

\* C9: for a session that runs to its natural completion, the blocks the
\* output worker took from the queue are the blocks the capture worker
\* pushed.
NoBlockDropped == NaturalCompletion => popped = pushed

\* C10: the blocks written to the playback device and the blocks appended
\* to the file are each a prefix of the blocks pushed, in the same order.
FifoDelivery == IsPrefix(played, pushed) /\ IsPrefix(filed, pushed)

\* C11: the input and the output device handle are each non-null exactly
\* when running is true; stated here for the states in which no stop()
\* call is in progress, where start() and stop() have done all they do.
HandleRunningInvariant ==
    (\A t \in Threads : spc[t] = "none") =>
        /\ (in_stream # "none") <=> is_running
        /\ (out_stream # "none") <=> is_running

\* C12: a worker error is fatal.  When the stop() call made by the error
\* handler of the capture worker (line 205) or of the output worker (line
\* 226) is over, running is false, so that the worker leaves its loop at
\* the next test without another I/O operation.
WorkerErrorsFatal ==
    [][\A w \in {"capture", "output"} :
          (pc[w] \in {"p205", "o226"} /\ pc'[w] # pc[w]) => ~is_running'
      ]_vars

\* C13: when opening a device fails in start(), the exception reaches the
\* caller, running stays false and none of the three threads is started,
\* then or later.
StartFailureIsClean ==
    (startResult = "failed") =>
        /\ ~is_running
        /\ \A w \in {"timer", "capture", "output"} :
              pc[w] = "idle" /\ spc[w] = "none"

OutputDeviceFailed ==
    /\ startResult = "failed"
    /\ in_stream = "open"
    /\ out_stream = "none"
    /\ pc["caller"] = "c_stop"

\* C14: while running is true, no step decreases the duration the caller
\* reads.
DurationMonotonic == [][is_running => duration' >= duration]_vars

DurationAdvanced == Started /\ is_running /\ duration >= 1

\* ---- the early-stop scenario -------------------------------------------
\* AudioProcessor(min_duration=2, max_duration=5), both devices opening, no
\* I/O error, a timer that wakes on time, and a caller that calls stop()
\* once, when one second has elapsed (lines 269-270).
ScenarioInit ==
    /\ min_duration = 2
    /\ max_duration = 5
    /\ Constructed

ScenarioTimer133 == Timer133 /\ elapsed' = elapsed

ScenarioCallerStop == elapsed = Res /\ ~stop_requested /\ CallerStop

ScenarioOutputGet == OutputGet /\ faults' = faults

ScenarioOutput222 == Output222 /\ faults' = faults

ScenarioNext ==
    \/ Start
    \/ ScenarioCallerStop
    \/ ScenarioTimer133
    \/ Timer138
    \/ Capture190
    \/ Capture193
    \/ Output209
    \/ Output215
    \/ Output218
    \/ ScenarioOutputGet
    \/ ScenarioOutput222
    \/ \E t \in Threads : Stop157(t)
    \/ \E t \in Threads : Stop160(t)
    \/ \E t \in Threads : Stop162(t)
    \/ \E t \in Threads : Stop163(t)
    \/ \E t \in Threads : Stop166(t)
    \/ \E t \in Threads : Stop169(t)

ScenarioSpec == ScenarioInit /\ [][ScenarioNext]_vars

\* C15: in the scenario the session keeps running after the stop request
\* made at 1 s, and the pending stop completes at elapsed = 2 s, with a
\* final duration in [2, 3) and maximum_duration_reached false.
EarlyStopTiming ==
    /\ (Started /\ stop_requested /\ elapsed < 2 * Res) => is_running
    /\ (Started /\ stop_requested /\ ~is_running) =>
          /\ elapsed = 2 * Res
          /\ duration = 2
          /\ ~maximum_duration_reached

\* C16: no use after release.  The capture worker's read-and-put step finds
\* the input stream and the queue reference in place, the output worker's
\* queue access finds the queue reference in place, and its playback write
\* finds the output stream in place.
NoUseAfterRelease ==
    [][/\ (pc["capture"] = "p193" /\ pc'["capture"] # "p193") =>
              (in_stream = "open" /\ audio_data_queue)
       /\ (pc["output"] = "o218" /\ pc'["output"] # "o218") =>
              audio_data_queue
       /\ (pc["output"] = "o218get" /\ pc'["output"] # "o218get") =>
              out_stream = "open"
      ]_vars

\* C17: playback precedes persistence: every block appended to the file
\* was played before, and the file trails the playback device by at most
\* one block.
PlaybackPrecedesPersistence ==
    /\ \A i \in 1..Len(filed) : \E j \in 1..Len(played) : played[j] = filed[i]
    /\ Len(filed) <= Len(played)
    /\ Len(played) - Len(filed) <= 1

\* C18: once running is false, the capture worker, the output worker and
\* the timer each come to an end.
ShutdownTerminates ==
    (Started /\ ~is_running) ~>
        (\A w \in {"timer", "capture", "output"} : pc[w] \in {"done", "dead"})

\* C19: with min_duration <= max_duration, whenever the timer thread has
\* ended, running is false and the minimum is recorded: the timer never
\* leaves a session running or a stop deferred.
TimerNeverAbandons ==
    (min_duration <= max_duration /\ pc["timer"] \in {"done", "dead"}) =>
        (~is_running /\ minimal_duration_recorded)

TimerEndedBySelf ==
    /\ Started
    /\ min_duration <= max_duration
    /\ pc["timer"] = "done"
    /\ pc["caller"] = "idle"
    /\ released["p"] = 1
    /\ ~raised

\* C20: with min_duration <= max_duration, maximum_duration_reached implies
\* that the minimum is recorded and that duration >= max_duration.
FlagConsistency ==
    (min_duration <= max_duration /\ maximum_duration_reached) =>
        (minimal_duration_recorded /\ duration >= max_duration)

MaxFlaggedWhileRunning ==
    /\ Started
    /\ min_duration <= max_duration
    /\ maximum_duration_reached
    /\ is_running
    /\ max_duration >= 1

====
